---- MODULE Spec2Model ----
(***************************************************************************)
(* Model of MultiFanController.py: a Raspberry Pi fan controller that      *)
(* samples the CPU temperature (get_temp), maps it through a threshold     *)
(* table to a duty cycle (temp_to_duty_cycle) and applies it to every PWM  *)
(* fan (main), or runs a dry-run sweep over the table (test_mode).         *)
(*                                                                         *)
(* Conventions.  A Python dict is a sequence of <<key, value>> pairs in    *)
(* insertion order with unique keys.  A Python str is a sequence of        *)
(* one-character strings.  Temperatures are integers (whole degrees); the  *)
(* alphabet of the modelled sensor outputs has no '.', 'e', '+', '_' or    *)
(* white space, so float() accepts exactly an optional '-' followed by     *)
(* decimal digits.  Python indexes from 0, the model from 1.  A function   *)
(* that may raise returns [err |-> <exception or "none">, val |-> <value>].*)
(***************************************************************************)
EXTENDS Integers, Sequences, FiniteSets, TLC

\* ------------------------------------------------------------------ bounds
MaxFans == 2            \* most fans in config['fans']
MaxTable == 2           \* most entries of the threshold table, whole program
MaxResolveTable == 3    \* most entries of the threshold table, resolver alone
MaxTemp == 70           \* resolver alone: temperatures range over -MaxTemp..MaxTemp

VARIABLES
    args,        \* parse_arguments(): [test]
    config,      \* yaml.safe_load(file)['config']
    pc,          \* position of the single thread of control
    fans,        \* setup_fans/main: the list of PWM handles
    gpio_out,    \* pins RPi.GPIO.setup has configured as outputs
    idx,         \* loop index over config['fans'] (setup, actuation, sweep)
    k,           \* test_mode: index into duty_cycles
    temp_str,    \* get_temp: decoded stdout of vcgencmd
    temp,        \* main: last sampled temperature
    duty_cycle,  \* main: last resolved duty cycle
    error,       \* exception that ended the process, "none" otherwise
    last_log,    \* last "Changing fan {} to {}%" message
    sleeps       \* test_mode: time.sleep calls made so far

vars == <<args, config, pc, fans, gpio_out, idx, k, temp_str, temp,
          duty_cycle, error, last_log, sleeps>>

\* Python's None for temp and duty_cycle before their first assignment.
None == [set |-> FALSE, val |-> 0]
Some(x) == [set |-> TRUE, val |-> x]

NoLog == [fan |-> 0, duty |-> 0]

\* ------------------------------------------------------------ dict helpers
Keys(d) == {d[i][1] : i \in 1..Len(d)}
Values(d) == [i \in 1..Len(d) |-> d[i][2]]
HasKey(d, key) == \E i \in 1..Len(d) : d[i][1] = key
Lookup(d, key) == d[CHOOSE i \in 1..Len(d) : d[i][1] = key][2]

\* ------------------------------------------------------- configurations
Thresholds == {-10, 0, 40, 60}
Duties == {0, 30, 100}
Timeouts == {5}

\* Every dict with at most n entries: keys unique, any insertion order.
Dicts(n) ==
    UNION {{d \in [1..m -> Thresholds \X Duties] :
              \A i, j \in 1..m : d[i][1] = d[j][1] => i = j} : m \in 0..n}

FanSpec(i) == [gpio |-> 13 + i, hz |-> 25 * i]
FanSpecs(n) == [i \in 1..n |-> FanSpec(i)]

Configs(maxTable) ==
    [fans : {FanSpecs(n) : n \in 1..MaxFans},
     temp_to_duty_cycle_thresholds : Dicts(maxTable),
     timeout_seconds : Timeouts]

\* ---------------------------------------------------------------- get_temp
Digit == [c \in {"0", "1", "2", "3", "4", "5", "6", "7", "8", "9"} |->
            CASE c = "0" -> 0 [] c = "1" -> 1 [] c = "2" -> 2 [] c = "3" -> 3
              [] c = "4" -> 4 [] c = "5" -> 5 [] c = "6" -> 6 [] c = "7" -> 7
              [] c = "8" -> 8 [] c = "9" -> 9]

\* str.split(sep): the pieces of s between occurrences of sep.
RECURSIVE Split(_, _)
Split(s, sep) ==
    IF \A i \in 1..Len(s) : s[i] # sep
    THEN <<s>>
    ELSE LET i == CHOOSE j \in 1..Len(s) :
                     s[j] = sep /\ \A h \in 1..(j - 1) : s[h] # sep
         IN <<SubSeq(s, 1, i - 1)>> \o Split(SubSeq(s, i + 1, Len(s)), sep)

AllDigits(s) == Len(s) > 0 /\ \A i \in 1..Len(s) : s[i] \in DOMAIN Digit

RECURSIVE Decimal(_)
Decimal(s) ==
    IF Len(s) = 0 THEN 0
    ELSE 10 * Decimal(SubSeq(s, 1, Len(s) - 1)) + Digit[s[Len(s)]]

\* float(s) on the model's alphabet: ValueError unless -?[0-9]+.
Float(s) ==
    IF AllDigits(s) THEN [err |-> "none", val |-> Decimal(s)]
    ELSE IF Len(s) > 1 /\ s[1] = "-" /\ AllDigits(Tail(s))
         THEN [err |-> "none", val |-> 0 - Decimal(Tail(s))]
         ELSE [err |-> "ValueError", val |-> 0]

\* Variant: without an '=' the whole output is taken as the number.
get_temp_lenient(out) ==
    LET byEq == Split(out, "=")
        f == Float(Split(byEq[IF Len(byEq) < 2 THEN 1 ELSE 2], "'")[1])
    IN IF f.err = "none" THEN f
       ELSE [err |-> "RuntimeError", val |-> 0]

\* The parsing half of get_temp, applied to the decoded stdout.
get_temp(out) ==
    LET byEq == Split(out, "=")
    IN IF Len(byEq) < 2
       THEN [err |-> "RuntimeError", val |-> 0]            \* IndexError
       ELSE LET f == Float(Split(byEq[2], "'")[1])
            IN IF f.err = "none" THEN f
               ELSE [err |-> "RuntimeError", val |-> 0]    \* ValueError

\* Outputs vcgencmd may hand back: well-formed readings and malformed text.
Readings ==
    {<<"-", "2", "0">>, <<"-", "1", "0">>, <<"-", "5">>, <<"0">>,
     <<"3", "5">>, <<"4", "0">>, <<"4", "5">>, <<"6", "0">>, <<"9", "5">>}
WellFormedOutputs == {<<"t", "=">> \o r \o <<"'", "C">> : r \in Readings}
Malformed ==
    {<< >>,                                   \* the command printed nothing
     <<"t", "4", "5", "'", "C">>,             \* no '=' separator
     <<"4", "5">>,                            \* no '=' separator, bare number
     <<"t", "=", "'", "C">>,                  \* no number
     <<"t", "=", "t", "'", "C">>,             \* text in place of the number
     <<"t", "=", "4", "-", "5", "'", "C">>,   \* sign inside the number
     <<"t", "=", "-", "'", "C">>,             \* sign alone
     <<"t", "=", "=", "4", "5", "'", "C">>,   \* doubled separator
     <<"t", "=", "'", "4", "5", "C">>}        \* quote before the number
Unusual ==
    {<<"t", "=", "4", "5">>,                  \* no unit suffix
     <<"=", "6", "0", "'">>,                  \* no prefix, no unit letter
     <<"t", "=", "4", "0", "=", "9", "5">>,   \* second '=' ends the field
     <<"t", "=", "0", "6", "0", "'", "C", "'">>}
SensorOutputs == WellFormedOutputs \cup Malformed \cup Unusual

\* ------------------------------------------------------ temp_to_duty_cycle
\* The scan of lines 92-95 from entry i on, with the running target.
RECURSIVE ScanTarget(_, _, _, _)
ScanTarget(lookup, i, t, target) ==
    IF i > Len(lookup) THEN target
    ELSE LET threshold == lookup[i][1]
         IN ScanTarget(lookup, i + 1, t,
                IF t >= threshold /\ threshold > target THEN threshold
                ELSE target)

\* Variant: the comparison of line 94 reversed (temp <= threshold).
RECURSIVE ScanTargetReversed(_, _, _, _)
ScanTargetReversed(lookup, i, t, target) ==
    IF i > Len(lookup) THEN target
    ELSE LET threshold == lookup[i][1]
         IN ScanTargetReversed(lookup, i + 1, t,
                IF t <= threshold /\ threshold > target THEN threshold
                ELSE target)

temp_to_duty_cycle_reversed(cfg, t) ==
    LET lookup == cfg.temp_to_duty_cycle_thresholds
        target == ScanTargetReversed(lookup, 1, t, 0)
    IN IF HasKey(lookup, target)
       THEN [err |-> "none", val |-> Lookup(lookup, target)]
       ELSE [err |-> "KeyError", val |-> target]

\* Variant: lookup.get(target, 0) in place of lookup[target].
temp_to_duty_cycle_default(cfg, t) ==
    LET lookup == cfg.temp_to_duty_cycle_thresholds
        target == ScanTarget(lookup, 1, t, 0)
    IN IF HasKey(lookup, target)
       THEN [err |-> "none", val |-> Lookup(lookup, target)]
       ELSE [err |-> "none", val |-> 0]

\* Variant: return target in place of return lookup[target].
temp_to_duty_cycle_target(cfg, t) ==
    LET lookup == cfg.temp_to_duty_cycle_thresholds
        target == ScanTarget(lookup, 1, t, 0)
    IN IF HasKey(lookup, target)
       THEN [err |-> "none", val |-> target]
       ELSE [err |-> "KeyError", val |-> target]

\* Variant: line 94 without "and threshold > target" (last match wins).
RECURSIVE ScanTargetLastMatch(_, _, _, _)
ScanTargetLastMatch(lookup, i, t, target) ==
    IF i > Len(lookup) THEN target
    ELSE LET threshold == lookup[i][1]
         IN ScanTargetLastMatch(lookup, i + 1, t,
                IF t >= threshold THEN threshold ELSE target)

temp_to_duty_cycle_last_match(cfg, t) ==
    LET lookup == cfg.temp_to_duty_cycle_thresholds
        target == ScanTargetLastMatch(lookup, 1, t, 0)
    IN IF HasKey(lookup, target)
       THEN [err |-> "none", val |-> Lookup(lookup, target)]
       ELSE [err |-> "KeyError", val |-> target]

temp_to_duty_cycle(cfg, t) ==
    LET lookup == cfg.temp_to_duty_cycle_thresholds
        target == ScanTarget(lookup, 1, t, 0)
    IN IF HasKey(lookup, target)
       THEN [err |-> "none", val |-> Lookup(lookup, target)]
       ELSE [err |-> "KeyError", val |-> target]

\* ------------------------------------------------------------------- Init
InitLocals ==
    /\ fans = << >>
    /\ gpio_out = {}
    /\ idx = 1
    /\ k = 1
    /\ temp_str = << >>
    /\ duty_cycle = None
    /\ error = "none"
    /\ last_log = NoLog
    /\ sleeps = 0

Init ==
    /\ args \in [test : BOOLEAN]
    /\ config \in Configs(MaxTable)
    /\ pc = "setup_fans"
    /\ temp = None
    /\ InitLocals

\* ------------------------------------------------------------- setup_fans
\* Variant: fan.start(100) in place of fan.start(0).
SetupFanStartsFull ==
    /\ pc = "setup_fans"
    /\ idx <= Len(config.fans)
    /\ gpio_out' = gpio_out \cup {config.fans[idx].gpio}
    /\ fans' = Append(fans, [gpio |-> config.fans[idx].gpio,
                             hz |-> config.fans[idx].hz,
                             started |-> TRUE,
                             dutycycle |-> 100])
    /\ idx' = idx + 1
    /\ UNCHANGED <<args, config, pc, k, temp_str, temp, duty_cycle, error,
                   last_log, sleeps>>

\* One iteration of the loop of setup_fans: claim the pin, start PWM at 0.
SetupFan ==
    /\ pc = "setup_fans"
    /\ idx <= Len(config.fans)
    /\ gpio_out' = gpio_out \cup {config.fans[idx].gpio}
    /\ fans' = Append(fans, [gpio |-> config.fans[idx].gpio,
                             hz |-> config.fans[idx].hz,
                             started |-> TRUE,
                             dutycycle |-> 0])
    /\ idx' = idx + 1
    /\ UNCHANGED <<args, config, pc, k, temp_str, temp, duty_cycle, error,
                   last_log, sleeps>>

\* setup_fans returns; main chooses the mode.
SetupReturn ==
    /\ pc = "setup_fans"
    /\ idx > Len(config.fans)
    /\ pc' = IF args.test THEN "test_mode" ELSE "get_temp"
    /\ idx' = 1
    /\ UNCHANGED <<args, config, fans, gpio_out, k, temp_str, temp,
                   duty_cycle, error, last_log, sleeps>>

\* ----------------------------------------------------------- primary loop
\* get_temp, first half: run vcgencmd and decode its stdout.
RunVcgencmd ==
    /\ pc = "get_temp"
    /\ \E out \in SensorOutputs : temp_str' = out
    /\ pc' = "parse"
    /\ UNCHANGED <<args, config, fans, gpio_out, idx, k, temp, duty_cycle,
                   error, last_log, sleeps>>

\* get_temp on each output the sensor may give, computed once.
Parsed == [out \in SensorOutputs |-> get_temp(out)]

\* get_temp, second half: parse; the float is assigned to temp.
ParseOk ==
    /\ pc = "parse"
    /\ Parsed[temp_str].err = "none"
    /\ temp' = Some(Parsed[temp_str].val)
    /\ temp_str' = << >>
    /\ pc' = "temp_to_duty_cycle"
    /\ UNCHANGED <<args, config, fans, gpio_out, idx, k, duty_cycle, error,
                   last_log, sleeps>>

\* get_temp raises RuntimeError; nothing catches it.
ParseRaises ==
    /\ pc = "parse"
    /\ Parsed[temp_str].err # "none"
    /\ error' = Parsed[temp_str].err
    /\ pc' = "terminated"
    /\ UNCHANGED <<args, config, fans, gpio_out, idx, k, temp_str, temp,
                   duty_cycle, last_log, sleeps>>

\* Variant: lookup.pop(target) in place of lookup[target].
ResolveOkPops ==
    /\ pc = "temp_to_duty_cycle"
    /\ temp_to_duty_cycle(config, temp.val).err = "none"
    /\ duty_cycle' = Some(temp_to_duty_cycle(config, temp.val).val)
    /\ config' =
         [config EXCEPT !.temp_to_duty_cycle_thresholds =
            SelectSeq(@, LAMBDA e : e[1] # ScanTarget(@, 1, temp.val, 0))]
    /\ idx' = 1
    /\ pc' = "set_fans"
    /\ UNCHANGED <<args, fans, gpio_out, k, temp_str, temp, error,
                   last_log, sleeps>>

ResolveOk ==
    /\ pc = "temp_to_duty_cycle"
    /\ temp_to_duty_cycle(config, temp.val).err = "none"
    /\ duty_cycle' = Some(temp_to_duty_cycle(config, temp.val).val)
    /\ idx' = 1
    /\ pc' = "set_fans"
    /\ UNCHANGED <<args, config, fans, gpio_out, k, temp_str, temp, error,
                   last_log, sleeps>>

\* lookup[target] raises KeyError; nothing catches it.
ResolveRaises ==
    /\ pc = "temp_to_duty_cycle"
    /\ temp_to_duty_cycle(config, temp.val).err # "none"
    /\ error' = temp_to_duty_cycle(config, temp.val).err
    /\ pc' = "terminated"
    /\ UNCHANGED <<args, config, fans, gpio_out, idx, k, temp_str, temp,
                   duty_cycle, last_log, sleeps>>

\* Variant: fans[0].ChangeDutyCycle in place of fans[idx].ChangeDutyCycle.
SetFanFirstOnly ==
    /\ pc = "set_fans"
    /\ idx <= Len(config.fans)
    /\ last_log' = [fan |-> idx, duty |-> duty_cycle.val]
    /\ fans' = [fans EXCEPT ![1].dutycycle = duty_cycle.val]
    /\ idx' = idx + 1
    /\ UNCHANGED <<args, config, pc, gpio_out, k, temp_str, temp, duty_cycle,
                   error, sleeps>>

\* Variant: the duty cycle is added to the one the fan already has.
SetFanRelative ==
    /\ pc = "set_fans"
    /\ idx <= Len(config.fans)
    /\ last_log' = [fan |-> idx, duty |-> duty_cycle.val]
    /\ fans' = [fans EXCEPT ![idx].dutycycle =
                  IF @ + duty_cycle.val <= 100 THEN @ + duty_cycle.val
                  ELSE duty_cycle.val]
    /\ idx' = idx + 1
    /\ UNCHANGED <<args, config, pc, gpio_out, k, temp_str, temp, duty_cycle,
                   error, sleeps>>

\* One iteration of the loop of lines 121-123.
SetFan ==
    /\ pc = "set_fans"
    /\ idx <= Len(config.fans)
    /\ last_log' = [fan |-> idx, duty |-> duty_cycle.val]
    /\ fans' = [fans EXCEPT ![idx].dutycycle = duty_cycle.val]
    /\ idx' = idx + 1
    /\ UNCHANGED <<args, config, pc, gpio_out, k, temp_str, temp, duty_cycle,
                   error, sleeps>>

\* ChangeDutyCycle raises (the channel is no longer valid).
SetFanRaises ==
    /\ pc = "set_fans"
    /\ idx <= Len(config.fans)
    /\ last_log' = [fan |-> idx, duty |-> duty_cycle.val]
    /\ error' = "HardwareError"
    /\ pc' = "terminated"
    /\ UNCHANGED <<args, config, fans, gpio_out, idx, k, temp_str, temp,
                   duty_cycle, sleeps>>

\* Variant: no time.sleep at the end of the loop body.
SetFansDoneNoSleep ==
    /\ pc = "set_fans"
    /\ idx > Len(config.fans)
    /\ pc' = "get_temp"
    /\ UNCHANGED <<args, config, fans, gpio_out, idx, k, temp_str, temp,
                   duty_cycle, error, last_log, sleeps>>

\* The loop over the fans is exhausted: time.sleep is entered.
SetFansDone ==
    /\ pc = "set_fans"
    /\ idx > Len(config.fans)
    /\ pc' = "sleep"
    /\ UNCHANGED <<args, config, fans, gpio_out, idx, k, temp_str, temp,
                   duty_cycle, error, last_log, sleeps>>

\* Variant: the loop body runs once (a break after time.sleep).
SleepThenBreak ==
    /\ pc = "sleep"
    /\ pc' = "terminated"
    /\ UNCHANGED <<args, config, fans, gpio_out, idx, k, temp_str, temp,
                   duty_cycle, error, last_log, sleeps>>

\* time.sleep returns; while (1) starts the next tick.
Sleep ==
    /\ pc = "sleep"
    /\ pc' = "get_temp"
    /\ UNCHANGED <<args, config, fans, gpio_out, idx, k, temp_str, temp,
                   duty_cycle, error, last_log, sleeps>>

\* -------------------------------------------------------------- test_mode
\* Every reordering of a sequence.
Reorderings(s) ==
    {[i \in 1..Len(s) |-> s[p[i]]] :
        p \in {q \in [1..Len(s) -> 1..Len(s)] :
                 \A i, j \in 1..Len(s) : q[i] = q[j] => i = j}}

\* Variant: sorted(lookup.values()) in place of list(lookup.values()).
duty_cycles_sorted ==
    CHOOSE t \in Reorderings(Values(config.temp_to_duty_cycle_thresholds)) :
        \A i, j \in 1..Len(t) : i < j => t[i] <= t[j]

duty_cycles == Values(config.temp_to_duty_cycle_thresholds)

\* Variant: the log.debug of line 81 is missing.
TestLogSilent ==
    /\ pc = "test_mode"
    /\ idx <= Len(config.fans)
    /\ k <= Len(duty_cycles)
    /\ pc' = "test_sleep"
    /\ UNCHANGED <<args, config, fans, gpio_out, idx, k, temp_str, temp,
                   duty_cycle, error, last_log, sleeps>>

\* Variant: line 82 is live, fans[idx].ChangeDutyCycle(duty_cycle).
TestLogActuates ==
    /\ pc = "test_mode"
    /\ idx <= Len(config.fans)
    /\ k <= Len(duty_cycles)
    /\ last_log' = [fan |-> idx, duty |-> duty_cycles[k]]
    /\ fans' = [fans EXCEPT ![idx].dutycycle = duty_cycles[k]]
    /\ pc' = "test_sleep"
    /\ UNCHANGED <<args, config, gpio_out, idx, k, temp_str, temp,
                   duty_cycle, error, sleeps>>

\* log.debug of line 81; the ChangeDutyCycle of line 82 is commented out.
TestLog ==
    /\ pc = "test_mode"
    /\ idx <= Len(config.fans)
    /\ k <= Len(duty_cycles)
    /\ last_log' = [fan |-> idx, duty |-> duty_cycles[k]]
    /\ pc' = "test_sleep"
    /\ UNCHANGED <<args, config, fans, gpio_out, idx, k, temp_str, temp,
                   duty_cycle, error, sleeps>>

\* time.sleep of line 83, then the next duty cycle.
TestSleep ==
    /\ pc = "test_sleep"
    /\ sleeps' = sleeps + 1
    /\ k' = k + 1
    /\ pc' = "test_mode"
    /\ UNCHANGED <<args, config, fans, gpio_out, idx, temp_str, temp,
                   duty_cycle, error, last_log>>

\* duty_cycles exhausted (line 84 is commented out): next fan.
TestNextFan ==
    /\ pc = "test_mode"
    /\ idx <= Len(config.fans)
    /\ k > Len(duty_cycles)
    /\ idx' = idx + 1
    /\ k' = 1
    /\ UNCHANGED <<args, config, pc, fans, gpio_out, temp_str, temp,
                   duty_cycle, error, last_log, sleeps>>

\* Variant: no else in main, so the primary loop follows test_mode.
TestReturnFallsThrough ==
    /\ pc = "test_mode"
    /\ idx > Len(config.fans)
    /\ pc' = "get_temp"
    /\ UNCHANGED <<args, config, fans, gpio_out, idx, k, temp_str, temp,
                   duty_cycle, error, last_log, sleeps>>

\* test_mode returns, main returns, the interpreter exits normally.
TestReturn ==
    /\ pc = "test_mode"
    /\ idx > Len(config.fans)
    /\ pc' = "terminated"
    /\ UNCHANGED <<args, config, fans, gpio_out, idx, k, temp_str, temp,
                   duty_cycle, error, last_log, sleeps>>

\* ------------------------------------------------------------ environment
\* SIGINT/SIGTERM: no handler, no try/finally; the process ends where it is.
Signal ==
    /\ pc # "terminated"
    /\ error' = "signal"
    /\ pc' = "terminated"
    /\ UNCHANGED <<args, config, fans, gpio_out, idx, k, temp_str, temp,
                   duty_cycle, last_log, sleeps>>

Next ==
    \/ SetupFan
    \/ SetupReturn
    \/ RunVcgencmd
    \/ ParseOk
    \/ ParseRaises
    \/ ResolveOk
    \/ ResolveRaises
    \/ SetFan
    \/ SetFanRaises
    \/ SetFansDone
    \/ Sleep
    \/ TestLog
    \/ TestSleep
    \/ TestNextFan
    \/ TestReturn
    \/ Signal

Spec == Init /\ [][Next]_vars

\* ------------------------------------------------- the resolver on its own
\* temp_to_duty_cycle applied once to any table and any temperature.
InitResolve ==
    /\ args = [test |-> FALSE]
    /\ config \in {c \in Configs(MaxResolveTable) : Len(c.fans) = 1}
    /\ pc = "temp_to_duty_cycle"
    /\ temp \in {Some(t) : t \in (0 - MaxTemp)..MaxTemp}
    /\ InitLocals

NextResolve ==
    \/ ResolveOk
    \/ ResolveRaises

SpecResolve == InitResolve /\ [][NextResolve]_vars

\* --------------------------------------------------------------- fairness
\* The interpreter always takes the thread's next step; signals and
\* hardware faults are the environment's and may never come.
ProgramNext ==
    \/ SetupFan \/ SetupReturn
    \/ RunVcgencmd \/ ParseOk \/ ParseRaises
    \/ ResolveOk \/ ResolveRaises
    \/ SetFan \/ SetFansDone \/ Sleep
    \/ TestLog \/ TestSleep \/ TestNextFan \/ TestReturn

FairSpec == Spec /\ WF_vars(ProgramNext)

\* ======================================================== claims, resolver
Table == config.temp_to_duty_cycle_thresholds
Resolved == pc # "temp_to_duty_cycle"
KeysAtOrBelow(t) == {key \in Keys(Table) : key <= t}
Greatest(S) == CHOOSE x \in S : \A y \in S : y <= x

\* C1: for every table and every temperature at or above at least one
\* threshold, temp_to_duty_cycle returns the duty cycle of the greatest
\* threshold <= temperature (a temperature equal to a threshold selects it).
C1_GreatestThresholdAtOrBelow ==
    (Resolved /\ KeysAtOrBelow(temp.val) # {}) =>
        /\ error = "none"
        /\ duty_cycle = Some(Lookup(Table, Greatest(KeysAtOrBelow(temp.val))))

\* C2: when the table has a baseline entry (key 0) and the temperature is
\* below every non-zero threshold (also when it is below 0),
\* temp_to_duty_cycle returns the duty cycle of the baseline entry.
C2_BelowLowestGivesBaseline ==
    (/\ Resolved
     /\ HasKey(Table, 0)
     /\ \A key \in Keys(Table) \ {0} : temp.val < key) =>
        /\ error = "none"
        /\ duty_cycle = Some(Lookup(Table, 0))

C2_Witness ==
    /\ pc = "set_fans"
    /\ HasKey(Table, 0)
    /\ Len(Table) = 3
    /\ \E key \in Keys(Table) : key < 0
    /\ \A key \in Keys(Table) : temp.val < key
    /\ duty_cycle = Some(Lookup(Table, 0))
    /\ Lookup(Table, 0) # Lookup(Table, -10)

\* A table is well formed when it has the baseline entry and its duty cycle
\* does not decrease as the threshold increases.
WellFormedTable ==
    /\ HasKey(Table, 0)
    /\ \A i, j \in 1..Len(Table) :
          Table[i][1] < Table[j][1] => Table[i][2] <= Table[j][2]

\* C3: on a well-formed table temp_to_duty_cycle succeeds and is monotonic:
\* the duty cycle resolved for a temperature is <= the one resolved for any
\* higher temperature.
C3_Monotonic ==
    (Resolved /\ WellFormedTable) =>
        /\ error = "none"
        /\ \A b \in (temp.val + 1)..MaxTemp :
              /\ temp_to_duty_cycle(config, b).err = "none"
              /\ duty_cycle.val <= temp_to_duty_cycle(config, b).val

C3_Witness ==
    /\ pc = "set_fans"
    /\ WellFormedTable
    /\ Len(Table) = 3
    /\ duty_cycle.val < temp_to_duty_cycle(config, temp.val + 1).val
    /\ temp_to_duty_cycle(config, temp.val + 1).val
         < temp_to_duty_cycle(config, MaxTemp).val

\* ===================================================== claims, whole program
NumFans == Len(config.fans)
Terminal == [][pc # "terminated"]_vars      \* no step leaves "terminated"
AllFansAt(d) == \A i \in 1..Len(fans) : fans[i].dutycycle = d

\* C4: when the table has no entry keyed 0 and the temperature is below every
\* threshold, temp_to_duty_cycle raises KeyError instead of returning a duty
\* cycle: the step out of the resolver ends the process (by the KeyError, or
\* by a signal arriving first), changes no fan and no duty cycle, and no
\* later step exists that could set a fan.
C4_MissingBaselineRaises ==
    /\ [][(/\ pc = "temp_to_duty_cycle"
           /\ ~HasKey(Table, 0)
           /\ \A key \in Keys(Table) : temp.val < key) =>
              /\ pc' = "terminated"
              /\ error' \in {"KeyError", "signal"}
              /\ fans' = fans
              /\ duty_cycle' = duty_cycle]_vars
    /\ Terminal

C4_Witness ==
    /\ pc = "terminated"
    /\ error = "KeyError"
    /\ Len(Table) = 2
    /\ ~HasKey(Table, 0)
    /\ \A key \in Keys(Table) : temp.val < key
    /\ Len(fans) = 2
    /\ AllFansAt(30)

\* C5: whenever the primary loop reaches its sleep, there is one handle per
\* configured fan and every fan holds the same duty cycle, the one
\* temp_to_duty_cycle gives for the temperature sampled in this tick.
C5_AllFansAtResolvedDutyCycle ==
    pc = "sleep" =>
        /\ Len(fans) = NumFans
        /\ temp.set /\ duty_cycle.set
        /\ temp_to_duty_cycle(config, temp.val)
             = [err |-> "none", val |-> duty_cycle.val]
        /\ AllFansAt(duty_cycle.val)

C5_Witness ==
    /\ pc = "sleep"
    /\ Len(fans) = 2
    /\ temp.val = 45
    /\ fans[1].dutycycle = 100
    /\ fans[2].dutycycle = 100

NoSeparator(s) == \A i \in 1..Len(s) : s[i] # "="

\* C6: when vcgencmd's output is malformed (no '=' separator, or no parsable
\* number after it), the step that parses it ends the process with
\* get_temp's RuntimeError (or a signal arriving first): the loop does not go
\* on to resolve or actuate, temp, duty_cycle and every fan stay as they
\* were, and nothing runs afterwards (no retry, no fallback duty cycle).
C6_SensorFailureIsFatal ==
    /\ [][(pc = "parse" /\ temp_str \in Malformed) =>
              /\ pc' = "terminated"
              /\ error' \in {"RuntimeError", "signal"}
              /\ fans' = fans
              /\ temp' = temp
              /\ duty_cycle' = duty_cycle]_vars
    /\ [][error' = "RuntimeError" =>
              pc = "parse" /\ pc' = "terminated" /\ fans' = fans]_vars
    /\ Terminal

C6_Witness ==
    /\ pc = "terminated"
    /\ error = "RuntimeError"
    /\ NoSeparator(temp_str)
    /\ Len(temp_str) > 0
    /\ duty_cycle = Some(30)
    /\ Len(fans) = 2
    /\ AllFansAt(30)

\* C7: on every exit path shutdown has run before the process ends: in every
\* terminated state every PWM channel is stopped at duty cycle 0 and every
\* pin claim is released.
C7_ShutdownOnEveryExit ==
    pc = "terminated" =>
        /\ gpio_out = {}
        /\ \A i \in 1..Len(fans) :
              fans[i].dutycycle = 0 /\ ~fans[i].started

InSweep == pc \in {"test_mode", "test_sleep"}
SweepMeasure ==
    idx * (2 * Len(Table) + 3) + 2 * k + (IF pc = "test_sleep" THEN 1 ELSE 0)

\* C8: with the test flag set, F fans and T table entries, the program makes
\* at most F x T sleeps and has made exactly F x T when it ends normally; it
\* never enters the primary loop; the sweep cannot run forever (every step
\* inside it raises a bounded measure) and cannot get stuck.
C8_SweepIsFTimesTSteps ==
    /\ [](args.test =>
            /\ pc \in {"setup_fans", "test_mode", "test_sleep", "terminated"}
            /\ sleeps <= NumFans * Len(Table)
            /\ idx <= NumFans + 1
            /\ k <= Len(Table) + 1
            /\ (pc = "terminated" /\ error = "none"
                  => sleeps = NumFans * Len(Table)))
    /\ [][InSweep /\ InSweep' => SweepMeasure' > SweepMeasure]_vars
    /\ [](InSweep =>
            ENABLED (TestLog \/ TestSleep \/ TestNextFan \/ TestReturn))

C8_Witness ==
    /\ args.test
    /\ pc = "terminated"
    /\ error = "none"
    /\ NumFans = 2
    /\ Len(Table) = 2
    /\ sleeps = 4

HandleBound(i) ==
    /\ fans[i].gpio = config.fans[i].gpio
    /\ fans[i].hz = config.fans[i].hz
    /\ fans[i].started

\* C9: setup_fans builds one handle per FanSpec in configuration order, each
\* bound to the gpio and hz of its FanSpec and started at duty cycle 0: when
\* setup_fans returns there are exactly as many handles as configured fans
\* and all of them are at 0.
C9_SetupOneHandlePerFanAtZero ==
    /\ [](pc = "setup_fans" => Len(fans) = idx - 1 /\ AllFansAt(0))
    /\ [](\A i \in 1..Len(fans) : HandleBound(i))
    /\ [][pc = "setup_fans" /\ pc' \in {"test_mode", "get_temp"} =>
              Len(fans') = NumFans /\ AllFansAt(0)']_vars

C9_Witness ==
    /\ pc = "get_temp"
    /\ temp = None
    /\ Len(fans) = 2
    /\ fans[2] = [gpio |-> 15, hz |-> 50, started |-> TRUE, dutycycle |-> 0]

\* C10: in primary mode the process is terminated only with an error or a
\* signal; the step after the sleep starts the next tick unless a signal
\* arrives; and the loop reaches its sleep again and again unless an error
\* or a signal ends it.
C10_PrimaryLoopRunsUntilKilled ==
    /\ [](~args.test /\ pc = "terminated" => error # "none")
    /\ [][~args.test /\ pc = "sleep" =>
              pc' = "get_temp" \/ error' = "signal"]_vars
    /\ (~args.test => ([]<>(pc = "sleep") \/ <>(error # "none")))

C10_Witness ==
    /\ ~args.test
    /\ pc = "set_fans"
    /\ error = "none"
    /\ idx = 1
    /\ fans[1].dutycycle = 30
    /\ duty_cycle = Some(100)

InPrimary == pc \in {"get_temp", "parse", "temp_to_duty_cycle", "set_fans", "sleep"}

\* C11: the test flag selects exactly one mode after setup_fans: a run with
\* the flag never reaches a position of the primary loop and never samples
\* or resolves; a run without it never reaches the sweep and never makes a
\* sweep sleep; no run has both a sweep sleep and a sampled temperature; and
\* the sweep is entered only from setup_fans, which is never re-entered, so
\* it runs at most once.
C11_ModesExclusive ==
    /\ [](args.test => ~InPrimary /\ temp = None /\ duty_cycle = None)
    /\ [](~args.test => ~InSweep /\ sleeps = 0)
    /\ [](~(sleeps > 0 /\ temp.set))
    /\ [][pc = "setup_fans" /\ pc' \notin {"setup_fans", "terminated"} =>
              pc' = IF args.test THEN "test_mode" ELSE "get_temp"]_vars
    /\ [][InSweep' /\ ~InSweep => pc = "setup_fans"]_vars
    /\ [][pc' = "setup_fans" => pc = "setup_fans"]_vars

C11_Witness ==
    /\ args.test
    /\ pc = "terminated"
    /\ error = "none"
    /\ NumFans = 1
    /\ sleeps = 2
    /\ temp = None

\* C12: a primary-loop tick runs sample, resolve, set every fan in index
\* order, sleep: parsing follows only the sensor read, resolving only a
\* successful parse, the first fan is set only after resolving, a fan changes
\* only in the actuation loop, one index at a time and to the duty cycle
\* resolved from this tick's temperature, the sleep is entered only when all
\* fans have been set, and the next sample follows only a sleep (or setup),
\* so exactly one sleep lies between the actuations of consecutive ticks.
C12_TickOrder ==
    /\ [][pc' = "parse" /\ pc # "parse" => pc = "get_temp"]_vars
    /\ [][pc' = "temp_to_duty_cycle" /\ pc # "temp_to_duty_cycle" =>
              pc = "parse" /\ temp'.set]_vars
    /\ [][pc' = "set_fans" /\ pc # "set_fans" =>
              pc = "temp_to_duty_cycle" /\ idx' = 1 /\ fans' = fans]_vars
    /\ [][fans' # fans /\ pc # "setup_fans" =>
              /\ pc = "set_fans" /\ pc' = "set_fans"
              /\ idx' = idx + 1
              /\ fans' = [fans EXCEPT ![idx].dutycycle = duty_cycle.val]
              /\ temp_to_duty_cycle(config, temp.val)
                   = [err |-> "none", val |-> duty_cycle.val]]_vars
    /\ [](pc = "set_fans" =>
            \A i \in 1..(idx - 1) : fans[i].dutycycle = duty_cycle.val)
    /\ [][pc' = "sleep" /\ pc # "sleep" =>
              pc = "set_fans" /\ idx = NumFans + 1]_vars
    /\ [][pc = "sleep" => pc' \in {"get_temp", "terminated"}]_vars
    /\ [][pc' = "get_temp" /\ pc # "get_temp" =>
              pc \in {"sleep", "setup_fans"}]_vars

C12_Witness ==
    /\ pc = "set_fans"
    /\ NumFans = 2
    /\ idx = 2
    /\ duty_cycle = Some(100)
    /\ fans[1].dutycycle = 100
    /\ fans[2].dutycycle = 30

\* C13: setting a fan to the duty cycle it already has changes nothing: a
\* step of the actuation loop on a fan already at the resolved duty cycle
\* leaves the whole list of handles as it was, so a tick that resolves the
\* same duty cycle as the tick before leaves every fan at that duty cycle
\* at each of its steps.
C13_SetDutyCycleIdempotent ==
    /\ [][(/\ pc = "set_fans"
           /\ idx <= NumFans
           /\ fans[idx].dutycycle = duty_cycle.val) => fans' = fans]_vars
    /\ [](/\ pc = "set_fans"
          /\ idx <= NumFans
          /\ fans[NumFans].dutycycle = duty_cycle.val
          => AllFansAt(duty_cycle.val))

C13_Witness ==
    /\ pc = "set_fans"
    /\ NumFans = 2
    /\ idx = 2
    /\ duty_cycle = Some(30)
    /\ AllFansAt(30)

\* C14: the sweep is fan-major and follows the table's insertion order: the
\* step announced after n completed sleeps is for fan (n div T) + 1 and for
\* the duty cycle of the ((n mod T) + 1)-th inserted entry, whatever the
\* order of the thresholds or of the duty cycles; the announced fan never
\* goes back to an earlier one.
C14_SweepFanMajorInsertionOrder ==
    /\ [](pc = "test_sleep" =>
            last_log = [fan |-> (sleeps \div Len(Table)) + 1,
                        duty |-> Table[(sleeps % Len(Table)) + 1][2]])
    /\ [][args.test => last_log'.fan >= last_log.fan]_vars

C14_Witness ==
    /\ pc = "test_sleep"
    /\ idx = 2
    /\ k = 2
    /\ Len(Table) = 2
    /\ Table[1][1] = 40 /\ Table[2][1] = 0
    /\ Table[1][2] = 100 /\ Table[2][2] = 30
    /\ last_log = [fan |-> 2, duty |-> 30]

C17_ConfigImmutableResolverPure ==
    /\ [][config' = config]_vars
    /\ [][pc = "temp_to_duty_cycle" =>
              fans' = fans /\ gpio_out' = gpio_out]_vars
    /\ [](pc \in {"set_fans", "sleep"} =>
            temp_to_duty_cycle(config, temp.val)
              = [err |-> "none", val |-> duty_cycle.val])

C17_Witness ==
    /\ pc = "set_fans"
    /\ idx = 1
    /\ NumFans = 2
    /\ Len(Table) = 2
    /\ fans[1].dutycycle = 100
    /\ duty_cycle = Some(30)

TableDuties == {Table[j][2] : j \in 1..Len(Table)}

\* C18: in every reachable state each fan's duty cycle is the initial 0 or a
\* duty cycle of the threshold table, and when all duty cycles of the table
\* lie in 0..100 so does every fan's.
C18_FanDutyCycleFromTable ==
    /\ \A i \in 1..Len(fans) : fans[i].dutycycle \in {0} \cup TableDuties
    /\ (TableDuties \subseteq 0..100 =>
          \A i \in 1..Len(fans) : fans[i].dutycycle \in 0..100)

C18_Witness ==
    /\ pc = "sleep"
    /\ Table = <<<<40, 100>>, <<0, 30>>>>
    /\ temp.val = 35
    /\ Len(fans) = 2
    /\ AllFansAt(30)

\* C19: the outcome of temp_to_duty_cycle does not depend on the order in
\* which the table's entries are listed: for the same temperature every
\* reordering of the table gives the same duty cycle, or fails as well.
C19_OrderIndependent ==
    Resolved =>
        \A t \in Reorderings(Table) :
            LET r == temp_to_duty_cycle(
                         [config EXCEPT !.temp_to_duty_cycle_thresholds = t],
                         temp.val)
            IN /\ r.err = error
               /\ (error = "none" => r.val = duty_cycle.val)

C19_Witness ==
    /\ pc = "set_fans"
    /\ Len(Table) = 3
    /\ Table[1][1] = 60 /\ Table[2][1] = 40 /\ Table[3][1] = 0
    /\ Table[1][2] = 100 /\ Table[2][2] = 30 /\ Table[3][2] = 0
    /\ temp.val = 45
    /\ duty_cycle = Some(30)

====
